---- MODULE Spec2Model ----
(***************************************************************************)
(* Production schedule reflow (Naologic): the shift calendar, the          *)
(* shift- and maintenance-aware time walk, Kahn's topological sort, the    *)
(* placement loop of reflow and the constraint checker (validateSchedule). *)
(*                                                                         *)
(* Instants are whole seconds counted from a Monday 00:00:00 UTC.  An ISO  *)
(* date string is the record of its calendar fields                        *)
(* [day, hour, minute, second]; parseUTC and toISO convert between the two.*)
(***************************************************************************)
EXTENDS Integers, Sequences, FiniteSets, TLC

\* ------------------------------------------------------------------------
\* Calendar arithmetic (Luxon DateTime in the UTC zone)
\* ------------------------------------------------------------------------
SecondsPerMinute == 60
MinutesPerHour == 60
HoursPerDay == 24
DaysPerWeek == 7
MillisPerSecond == 1000

SecondsPerHour == MinutesPerHour * SecondsPerMinute
SecondsPerDay == HoursPerDay * SecondsPerHour

Min(S) == CHOOSE x \in S : \A y \in S : x <= y
Max(S) == CHOOSE x \in S : \A y \in S : x >= y
Abs(x) == IF x < 0 THEN 0 - x ELSE x

\* DateTime.fromISO(iso, {zone: 'utc'}): the instant of the calendar fields.
parseUTC(iso) ==
    ((iso.day * HoursPerDay + iso.hour) * MinutesPerHour + iso.minute)
        * SecondsPerMinute + iso.second

\* dt.toISO(): the calendar fields of the instant.
toISO(dt) ==
    [day    |-> dt \div SecondsPerDay,
     hour   |-> (dt % SecondsPerDay) \div SecondsPerHour,
     minute |-> (dt % SecondsPerHour) \div SecondsPerMinute,
     second |-> dt % SecondsPerMinute]

\* dt.weekday (1 = Monday .. 7 = Sunday), dt.hour, dt.minute, dt.startOf('day')
weekday(dt) == ((dt \div SecondsPerDay) % DaysPerWeek) + 1
hour(dt) == (dt % SecondsPerDay) \div SecondsPerHour
minute(dt) == (dt % SecondsPerHour) \div SecondsPerMinute
startOfDay(dt) == dt - (dt % SecondsPerDay)

\* ------------------------------------------------------------------------
\* ShiftCalendar (utils/date-utils.ts)
\* ------------------------------------------------------------------------
toPlanDayOfWeek(luxonWeekday) == IF luxonWeekday = 7 THEN 0 ELSE luxonWeekday

isInShift(dt, s) ==
    IF s.dayOfWeek # toPlanDayOfWeek(weekday(dt)) THEN FALSE
    ELSE IF hour(dt) > s.startHour /\ hour(dt) < s.endHour THEN TRUE
    ELSE IF hour(dt) = s.startHour /\ hour(dt) < s.endHour THEN TRUE
    ELSE FALSE

isWithinShift(dt, shifts) == \E i \in 1..Len(shifts) : isInShift(dt, shifts[i])

\* The first shift of the list (in list order) on dt's day whose hour range
\* holds dt's hour ends the segment; dt itself when there is none.
getShiftSegmentEnd(dt, shifts) ==
    LET hits == {i \in 1..Len(shifts) :
                    /\ shifts[i].dayOfWeek = toPlanDayOfWeek(weekday(dt))
                    /\ hour(dt) >= shifts[i].startHour
                    /\ hour(dt) < shifts[i].endHour}
    IN  IF hits = {} THEN dt
        ELSE startOfDay(dt) + shifts[Min(hits)].endHour * SecondsPerHour

\* Earliest shift start at or after dt among the days dt+0 .. dt+7.
getNextShiftStart(dt, shifts) ==
    IF Len(shifts) = 0 THEN dt
    ELSE LET candidates ==
                 {startOfDay(dt + d * SecondsPerDay)
                      + shifts[i].startHour * SecondsPerHour :
                  <<d, i>> \in {p \in (0..7) \X (1..Len(shifts)) :
                      shifts[p[2]].dayOfWeek =
                          toPlanDayOfWeek(weekday(dt + p[1] * SecondsPerDay))}}
             atOrAfter == {c \in candidates : c >= dt}
         IN  IF atOrAfter = {} THEN dt ELSE Min(atOrAfter)

isInMaintenanceRange(dt, ranges) ==
    \E i \in 1..Len(ranges) : dt >= ranges[i].start /\ dt < ranges[i].end

\* End of the first range of the list that holds dt.
getMaintenanceRangeEnd(dt, ranges) ==
    ranges[Min({i \in 1..Len(ranges) :
                   dt >= ranges[i].start /\ dt < ranges[i].end})].end

\* ------------------------------------------------------------------------
\* TimeWalker (utils/date-utils.ts)
\* ------------------------------------------------------------------------
MAX_ITER_MOMENT == 1000
MAX_ITER_WALK == 5000

\* The loop of getNextWorkingMoment from iteration i on.  The result carries
\* the instant returned and whether it left through the bound (line 126)
\* instead of the return inside the loop (line 124).  An iteration that does
\* not move current is repeated unchanged by every iteration that follows,
\* so the loop then runs to the bound and returns current.
RECURSIVE NextWorkingMomentLoop(_, _, _, _)
NextWorkingMomentLoop(current, i, shifts, maintenanceRanges) ==
    IF i >= MAX_ITER_MOMENT THEN [t |-> current, exhausted |-> TRUE]
    ELSE IF Len(shifts) > 0 /\ ~isWithinShift(current, shifts)
    THEN LET next == getNextShiftStart(current, shifts)
         IN  IF next = current
             THEN [t |-> current, exhausted |-> TRUE]
             ELSE NextWorkingMomentLoop(next, i + 1, shifts, maintenanceRanges)
    ELSE IF Len(maintenanceRanges) > 0
            /\ isInMaintenanceRange(current, maintenanceRanges)
    THEN NextWorkingMomentLoop(
             getMaintenanceRangeEnd(current, maintenanceRanges),
             i + 1, shifts, maintenanceRanges)
    ELSE [t |-> current, exhausted |-> FALSE]

getNextWorkingMoment(dt, shifts, maintenanceRanges) ==
    NextWorkingMomentLoop(dt, 0, shifts, maintenanceRanges)

\* for (const r of maintenanceRanges) from index k on
RECURSIVE WorkingSegmentEndLoop(_, _, _, _)
WorkingSegmentEndLoop(dt, segmentEnd, k, maintenanceRanges) ==
    IF k > Len(maintenanceRanges) THEN segmentEnd
    ELSE WorkingSegmentEndLoop(
             dt,
             IF maintenanceRanges[k].start > dt
                   /\ maintenanceRanges[k].start < segmentEnd
             THEN maintenanceRanges[k].start ELSE segmentEnd,
             k + 1, maintenanceRanges)

getWorkingSegmentEnd(dt, shifts, maintenanceRanges) ==
    WorkingSegmentEndLoop(dt, getShiftSegmentEnd(dt, shifts), 1,
                          maintenanceRanges)

\* The for loop of calculateEndDateWithShiftsAndMaintenance from iteration i
\* on.  exhausted: some loop (this one or a getNextWorkingMoment it called)
\* ran out of iterations.  An iteration with an empty segment that leaves
\* current where it was is repeated unchanged up to the bound.
RECURSIVE EndDateLoop(_, _, _, _, _, _)
EndDateLoop(current, remaining, i, hit, shifts, maintenanceRanges) ==
    IF ~(i < MAX_ITER_WALK /\ remaining > 0)
    THEN [t |-> current, exhausted |-> hit \/ remaining > 0]
    ELSE LET segmentEnd ==
                 getWorkingSegmentEnd(current, shifts, maintenanceRanges)
             minutesInSegment == (segmentEnd - current) \div SecondsPerMinute
             next == getNextWorkingMoment(segmentEnd, shifts, maintenanceRanges)
         IN  IF minutesInSegment <= 0
             THEN IF next.t = current
                  THEN [t |-> current, exhausted |-> TRUE]
                  ELSE EndDateLoop(next.t, remaining, i + 1,
                                   hit \/ next.exhausted,
                                   shifts, maintenanceRanges)
             ELSE IF remaining <= minutesInSegment
             THEN [t |-> current + remaining * SecondsPerMinute,
                   exhausted |-> hit]
             ELSE EndDateLoop(next.t, remaining - minutesInSegment, i + 1,
                              hit \/ next.exhausted,
                              shifts, maintenanceRanges)

\* WalkWithShiftsAndMaintenance without the early return of lines 161-163 for
\* an empty shift table.
WalkWithoutFallback(startDate, durationMinutes, shifts, maintenanceRanges) ==
    LET first == getNextWorkingMoment(startDate, shifts, maintenanceRanges)
    IN  EndDateLoop(first.t, durationMinutes, 0, first.exhausted,
                    shifts, maintenanceRanges)

\* The whole call: the instant returned and whether a bound was exhausted.
WalkWithShiftsAndMaintenance(startDate, durationMinutes, shifts, maintenanceRanges) ==
    IF Len(shifts) = 0
    THEN [t |-> startDate + durationMinutes * SecondsPerMinute,
          exhausted |-> FALSE]
    ELSE LET first == getNextWorkingMoment(startDate, shifts, maintenanceRanges)
         IN  EndDateLoop(first.t, durationMinutes, 0, first.exhausted,
                         shifts, maintenanceRanges)

calculateEndDateWithShiftsAndMaintenance(startDate, durationMinutes, shifts, maintenanceRanges) ==
    WalkWithShiftsAndMaintenance(startDate, durationMinutes, shifts,
                                 maintenanceRanges).t

\* The while (remaining > 0) loop of calculateEndDateWithShifts.  It has no
\* iteration bound: an iteration with an empty segment whose
\* getNextShiftStart(current) is current again leaves (current, remaining)
\* as they were, and the loop never exits (returns = FALSE).
RECURSIVE ShiftWalkLoop(_, _, _)
ShiftWalkLoop(current, remaining, shifts) ==
    IF ~(remaining > 0) THEN [returns |-> TRUE, t |-> current]
    ELSE LET segmentEnd == getShiftSegmentEnd(current, shifts)
             minutesInSegment == (segmentEnd - current) \div SecondsPerMinute
         IN  IF minutesInSegment <= 0
             THEN LET next == getNextShiftStart(current, shifts)
                  IN  IF next = current
                      THEN [returns |-> FALSE, t |-> current]
                      ELSE ShiftWalkLoop(next, remaining, shifts)
             ELSE IF remaining <= minutesInSegment
             THEN [returns |-> TRUE,
                   t |-> current + remaining * SecondsPerMinute]
             ELSE ShiftWalkLoop(segmentEnd, remaining - minutesInSegment,
                                shifts)

calculateEndDateWithShifts(startDate, durationMinutes, shifts) ==
    IF Len(shifts) = 0
    THEN [returns |-> TRUE,
          t |-> startDate + durationMinutes * SecondsPerMinute]
    ELSE ShiftWalkLoop(
             IF ~isWithinShift(startDate, shifts)
             THEN getNextShiftStart(startDate, shifts) ELSE startDate,
             durationMinutes, shifts)

MAX_ITER_SEGMENTS == 5000

\* The for loop of getWorkingSegments from iteration i on, with the
\* segments pushed so far.  An iteration with an empty segment that leaves
\* current where it was is repeated unchanged up to the bound, after which
\* the segments collected are returned.
RECURSIVE SegmentsLoop(_, _, _, _, _, _)
SegmentsLoop(current, remaining, i, collected, shifts, maintenanceRanges) ==
    IF ~(i < MAX_ITER_SEGMENTS /\ remaining > 0) THEN collected
    ELSE LET segmentEnd ==
                 getWorkingSegmentEnd(current, shifts, maintenanceRanges)
             minutesInSegment == (segmentEnd - current) \div SecondsPerMinute
             next == getNextWorkingMoment(segmentEnd, shifts, maintenanceRanges)
         IN  IF minutesInSegment <= 0
             THEN IF next.t = current THEN collected
                  ELSE SegmentsLoop(next.t, remaining, i + 1, collected,
                                    shifts, maintenanceRanges)
             ELSE IF remaining <= minutesInSegment
             THEN Append(collected,
                         [start |-> current,
                          end |-> current + remaining * SecondsPerMinute])
             ELSE SegmentsLoop(next.t, remaining - minutesInSegment, i + 1,
                               Append(collected,
                                      [start |-> current, end |-> segmentEnd]),
                               shifts, maintenanceRanges)

getWorkingSegments(startDate, durationMinutes, shifts, maintenanceRanges) ==
    IF Len(shifts) = 0
    THEN <<[start |-> startDate,
            end |-> startDate + durationMinutes * SecondsPerMinute]>>
    ELSE SegmentsLoop(
             getNextWorkingMoment(startDate, shifts, maintenanceRanges).t,
             durationMinutes, 0, <<>>, shifts, maintenanceRanges)

\* ------------------------------------------------------------------------
\* Records
\*   WorkOrder  [workOrderNumber, workCenterId, startDate, endDate,
\*               durationMinutes, isMaintenance, dependsOnWorkOrderIds]
\*   WorkCenter [name, shifts, maintenanceWindows]
\*   Shift [dayOfWeek, startHour, endHour]; MaintenanceWindow [startDate, endDate]
\* ------------------------------------------------------------------------

\* Map.get after "for (const wo of workOrders) byNumber.set(...)": the last
\* order of the list with that number.
hasNumber(workOrders, id) ==
    \E i \in 1..Len(workOrders) : workOrders[i].workOrderNumber = id

byNumber(workOrders, id) ==
    workOrders[Max({i \in 1..Len(workOrders) :
                       workOrders[i].workOrderNumber = id})]

\* workCenters.find((c) => c.name === name) / workCenterByName.get(name):
\* names are unique keys, the first center of that name.
hasCenter(workCenters, name) ==
    \E i \in 1..Len(workCenters) : workCenters[i].name = name

centerByName(workCenters, name) ==
    workCenters[Min({i \in 1..Len(workCenters) : workCenters[i].name = name})]

\* wc?.shifts ?? [] and wc?.maintenanceWindows ?? []
shiftsOf(workCenters, name) ==
    IF hasCenter(workCenters, name)
    THEN centerByName(workCenters, name).shifts ELSE <<>>

windowsOf(workCenters, name) ==
    IF hasCenter(workCenters, name)
    THEN centerByName(workCenters, name).maintenanceWindows ELSE <<>>

\* maintenanceWindows.map((w) => ({start: parseUTC(w.startDate), end: ...}))
toRanges(windows) ==
    [k \in 1..Len(windows) |->
        [start |-> parseUTC(windows[k].startDate),
         end   |-> parseUTC(windows[k].endDate)]]

\* ------------------------------------------------------------------------
\* Validator (reflow/constraint-checker.ts, and the older copy
\* src/constraint-checker.ts with the strict maintenance check)
\* ------------------------------------------------------------------------
END_TOLERANCE_MS == 60 * 1000

Err(kind, order, other) == [kind |-> kind, order |-> order, other |-> other]

\* Indices of the orders of one center, in list order.
RECURSIVE ordersOfCenter(_, _, _)
ordersOfCenter(workOrders, center, k) ==
    IF k > Len(workOrders) THEN <<>>
    ELSE (IF workOrders[k].workCenterId = center THEN <<k>> ELSE <<>>)
             \o ordersOfCenter(workOrders, center, k + 1)

\* Keys of byCenter in insertion order: centers by first occurrence.
RECURSIVE centersInOrder(_, _)
centersInOrder(workOrders, k) ==
    IF k > Len(workOrders) THEN <<>>
    ELSE (IF \E j \in 1..(k - 1) :
                 workOrders[j].workCenterId = workOrders[k].workCenterId
          THEN <<>> ELSE <<workOrders[k].workCenterId>>)
             \o centersInOrder(workOrders, k + 1)

\* [...orders].sort((a, b) => start(a) - start(b)): a stable sort, so
\* orders with equal starts keep their list order.
sortByStart(workOrders, idx) ==
    LET key(p) == parseUTC(workOrders[idx[p]].startDate)
        rank(p) == Cardinality({q \in 1..Len(idx) :
                        \/ key(q) < key(p)
                        \/ key(q) = key(p) /\ q < p}) + 1
    IN  [r \in 1..Len(idx) |->
            idx[CHOOSE p \in 1..Len(idx) : rank(p) = r]]

\* for (let i = 0; i < sorted.length - 1; i++) from pair i on
RECURSIVE adjacentConflicts(_, _, _)
adjacentConflicts(workOrders, sorted, i) ==
    IF i > Len(sorted) - 1 THEN <<>>
    ELSE LET a == workOrders[sorted[i]]
             b == workOrders[sorted[i + 1]]
         IN  (IF parseUTC(a.endDate) > parseUTC(b.startDate)
              THEN <<Err("conflict", a.workOrderNumber, b.workOrderNumber)>>
              ELSE <<>>)
                 \o adjacentConflicts(workOrders, sorted, i + 1)

RECURSIVE conflictsFrom(_, _, _)
conflictsFrom(workOrders, centers, c) ==
    IF c > Len(centers) THEN <<>>
    ELSE adjacentConflicts(
             workOrders,
             sortByStart(workOrders,
                         ordersOfCenter(workOrders, centers[c], 1)),
             1)
             \o conflictsFrom(workOrders, centers, c + 1)

checkWorkCenterConflicts(workOrders) ==
    conflictsFrom(workOrders, centersInOrder(workOrders, 1), 1)

\* The inner loop of checkDependencies over one order's dependency ids:
\* an error for each id that names no order.
RECURSIVE unknownDependencies(_, _, _)
unknownDependencies(workOrders, wo, k) ==
    IF k > Len(wo.dependsOnWorkOrderIds) THEN <<>>
    ELSE (IF ~hasNumber(workOrders, wo.dependsOnWorkOrderIds[k])
          THEN <<Err("unknown dependency", wo.workOrderNumber,
                     wo.dependsOnWorkOrderIds[k])>>
          ELSE <<>>)
             \o unknownDependencies(workOrders, wo, k + 1)

\* storedParentEnds that takes a maintenance order's own dependencies as
\* met: its interval is fixed, so nothing is collected for it.
storedParentEndsOfMovable(workOrders, wo) ==
    IF wo.isMaintenance THEN {}
    ELSE {parseUTC(byNumber(workOrders, wo.dependsOnWorkOrderIds[k]).endDate) :
             k \in {j \in 1..Len(wo.dependsOnWorkOrderIds) :
                       hasNumber(workOrders, wo.dependsOnWorkOrderIds[j])}}

\* Stored ends of the dependencies that resolve (maxParentEnd is their
\* maximum, null when there is none).
storedParentEnds(workOrders, wo) ==
    {parseUTC(byNumber(workOrders, wo.dependsOnWorkOrderIds[k]).endDate) :
        k \in {j \in 1..Len(wo.dependsOnWorkOrderIds) :
                  hasNumber(workOrders, wo.dependsOnWorkOrderIds[j])}}

RECURSIVE dependencyErrorsFrom(_, _)
dependencyErrorsFrom(workOrders, k) ==
    IF k > Len(workOrders) THEN <<>>
    ELSE LET wo == workOrders[k]
             ends == storedParentEnds(workOrders, wo)
         IN  unknownDependencies(workOrders, wo, 1)
                 \o (IF ends # {} /\ parseUTC(wo.startDate) < Max(ends)
                     THEN <<Err("dependency", wo.workOrderNumber, "")>>
                     ELSE <<>>)
                 \o dependencyErrorsFrom(workOrders, k + 1)

checkDependencies(workOrders) == dependencyErrorsFrom(workOrders, 1)

\* The end checkShifts re-derives for one order ([returns, t]): the
\* shift-and-maintenance walk when the center has maintenance windows, the
\* shift-only walk otherwise.
computedEnd(wo, shifts, maintenanceRanges) ==
    IF Len(maintenanceRanges) > 0
    THEN [returns |-> TRUE,
          t |-> calculateEndDateWithShiftsAndMaintenance(
                    parseUTC(wo.startDate), wo.durationMinutes, shifts,
                    maintenanceRanges)]
    ELSE calculateEndDateWithShifts(parseUTC(wo.startDate),
                                    wo.durationMinutes, shifts)

\* The strict copy re-derives the end with the shift-only walk always.
computedEndStrict(wo, shifts, maintenanceRanges) ==
    calculateEndDateWithShifts(parseUTC(wo.startDate), wo.durationMinutes,
                               shifts)

\* One iteration of the loop of checkShifts, given the re-derived end.
shiftErrorsOf(wo, shifts, computed) ==
    (IF ~isWithinShift(parseUTC(wo.startDate), shifts)
     THEN <<Err("shift start", wo.workOrderNumber, "")>> ELSE <<>>)
    \o (IF Abs(computed.t - parseUTC(wo.endDate)) * MillisPerSecond
              > END_TOLERANCE_MS
        THEN <<Err("shift end", wo.workOrderNumber, "")>> ELSE <<>>)

\* checkShifts from order k on: [returns, errors]; returns = FALSE when the
\* re-derivation of some order's end never returns.
RECURSIVE shiftErrorsFrom(_, _, _, _)
shiftErrorsFrom(workOrders, workCenters, k, strict) ==
    IF k > Len(workOrders) THEN [returns |-> TRUE, errors |-> <<>>]
    ELSE LET wo == workOrders[k]
             shifts == shiftsOf(workCenters, wo.workCenterId)
             ranges == toRanges(windowsOf(workCenters, wo.workCenterId))
             rest == shiftErrorsFrom(workOrders, workCenters, k + 1, strict)
         IN  IF Len(shifts) = 0 THEN rest
             ELSE LET computed == IF strict
                                  THEN computedEndStrict(wo, shifts, ranges)
                                  ELSE computedEnd(wo, shifts, ranges)
                  IN  IF ~computed.returns
                      THEN [returns |-> FALSE, errors |-> <<>>]
                      ELSE [returns |-> rest.returns,
                            errors |-> shiftErrorsOf(wo, shifts, computed)
                                           \o rest.errors]

checkShifts(workOrders, workCenters) ==
    shiftErrorsFrom(workOrders, workCenters, 1, FALSE)

checkShiftsStrict(workOrders, workCenters) ==
    shiftErrorsFrom(workOrders, workCenters, 1, TRUE)

\* reflow/constraint-checker.ts: work may span maintenance; no check.
checkMaintenance(workOrders, workCenters) == <<>>

\* src/constraint-checker.ts: an error for every window the order's
\* interval overlaps.
RECURSIVE overlapsFrom(_, _, _)
overlapsFrom(wo, windows, k) ==
    IF k > Len(windows) THEN <<>>
    ELSE (IF parseUTC(wo.startDate) < parseUTC(windows[k].endDate)
                /\ parseUTC(wo.endDate) > parseUTC(windows[k].startDate)
          THEN <<Err("maintenance", wo.workOrderNumber, "")>> ELSE <<>>)
             \o overlapsFrom(wo, windows, k + 1)

RECURSIVE maintenanceErrorsFrom(_, _, _)
maintenanceErrorsFrom(workOrders, workCenters, k) ==
    IF k > Len(workOrders) THEN <<>>
    ELSE overlapsFrom(workOrders[k],
                      windowsOf(workCenters, workOrders[k].workCenterId), 1)
             \o maintenanceErrorsFrom(workOrders, workCenters, k + 1)

checkMaintenanceStrict(workOrders, workCenters) ==
    maintenanceErrorsFrom(workOrders, workCenters, 1)

\* validateSchedule: [returns, valid, errors].  returns = FALSE: the call
\* never returns (checkShifts loops forever).
report(shiftCheck, errors) ==
    [returns |-> shiftCheck.returns,
     valid   |-> shiftCheck.returns /\ errors = <<>>,
     errors  |-> IF shiftCheck.returns THEN errors ELSE <<>>]

validateSchedule(workOrders, workCenters) ==
    LET shiftCheck == checkShifts(workOrders, workCenters)
    IN  report(shiftCheck,
               checkWorkCenterConflicts(workOrders)
                   \o checkDependencies(workOrders)
                   \o shiftCheck.errors
                   \o checkMaintenance(workOrders, workCenters))

validateScheduleStrict(workOrders, workCenters) ==
    LET shiftCheck == checkShiftsStrict(workOrders, workCenters)
    IN  report(shiftCheck,
               checkWorkCenterConflicts(workOrders)
                   \o checkDependencies(workOrders)
                   \o shiftCheck.errors
                   \o checkMaintenanceStrict(workOrders, workCenters))

\* ------------------------------------------------------------------------
\* DependencyGraph: topologicalOrder (reflow/reflow.service.ts)
\* ------------------------------------------------------------------------
numbersOf(workOrders) ==
    [k \in 1..Len(workOrders) |-> workOrders[k].workOrderNumber]

\* How often id occurs among the resolvable dependency ids of wo.
RECURSIVE occurrences(_, _, _)
occurrences(deps, id, k) ==
    IF k > Len(deps) THEN 0
    ELSE (IF deps[k] = id THEN 1 ELSE 0) + occurrences(deps, id, k + 1)

RECURSIVE repeat(_, _)
repeat(x, n) == IF n <= 0 THEN <<>> ELSE <<x>> \o repeat(x, n - 1)

\* initialInDegree without "if (!byNumber.has(depId)) continue": an id that
\* names no order is counted too.
initialInDegreeCountingUnknown(workOrders) ==
    [id \in {workOrders[k].workOrderNumber : k \in 1..Len(workOrders)} |->
        Len(byNumber(workOrders, id).dependsOnWorkOrderIds)]

\* initialInDegree with inDegree.set(id, 1) in place of the increment: an
\* order with several dependencies waits for one of them only.
initialInDegreeAtMostOne(workOrders) ==
    [id \in {workOrders[k].workOrderNumber : k \in 1..Len(workOrders)} |->
        LET deps == byNumber(workOrders, id).dependsOnWorkOrderIds
        IN  IF \E k \in 1..Len(deps) : hasNumber(workOrders, deps[k])
            THEN 1 ELSE 0]

\* inDegree after lines 98-112: one per dependency id that names an order.
initialInDegree(workOrders) ==
    [id \in {workOrders[k].workOrderNumber : k \in 1..Len(workOrders)} |->
        LET deps == byNumber(workOrders, id).dependsOnWorkOrderIds
        IN  Cardinality({k \in 1..Len(deps) : hasNumber(workOrders, deps[k])})]

\* children.get(id) after lines 104-112: the dependents of id, pushed in
\* list order of the work orders (once per occurrence of id), from order k on.
RECURSIVE childrenOf(_, _, _)
childrenOf(workOrders, id, k) ==
    IF k > Len(workOrders) THEN <<>>
    ELSE repeat(workOrders[k].workOrderNumber,
                occurrences(workOrders[k].dependsOnWorkOrderIds, id, 1))
             \o childrenOf(workOrders, id, k + 1)

\* for (const [id, d] of inDegree) if (d === 0) queue.push(id), from order k on
RECURSIVE initialQueue(_, _, _)
initialQueue(workOrders, degree, k) ==
    IF k > Len(workOrders) THEN <<>>
    ELSE (IF degree[workOrders[k].workOrderNumber] = 0
          THEN <<workOrders[k].workOrderNumber>> ELSE <<>>)
             \o initialQueue(workOrders, degree, k + 1)

\* releaseChildren with queue.unshift(c) in place of queue.push(c): a
\* released child goes to the front of the queue.
RECURSIVE releaseChildrenToFront(_, _, _, _)
releaseChildrenToFront(kids, k, degree, q) ==
    IF k > Len(kids) THEN [inDegree |-> degree, queue |-> q]
    ELSE LET c == kids[k]
             d == degree[c] - 1
         IN  releaseChildrenToFront(kids, k + 1, [degree EXCEPT ![c] = d],
                                    IF d = 0 THEN <<c>> \o q ELSE q)

\* for (const c of children.get(n)) from child k on: [inDegree, queue]
RECURSIVE releaseChildren(_, _, _, _)
releaseChildren(kids, k, degree, q) ==
    IF k > Len(kids) THEN [inDegree |-> degree, queue |-> q]
    ELSE LET c == kids[k]
             d == degree[c] - 1
         IN  releaseChildren(kids, k + 1, [degree EXCEPT ![c] = d],
                             IF d = 0 THEN Append(q, c) ELSE q)

\* workOrders.map(number).filter((id) => !result.includes(id))
inCycle(workOrders, order) ==
    SelectSeq(numbersOf(workOrders),
              LAMBDA id : \A k \in 1..Len(order) : order[k] # id)

\* ------------------------------------------------------------------------
\* Placer: reflow (reflow/reflow.service.ts)
\* ------------------------------------------------------------------------
MAX_MAINTENANCE_ITERATIONS == 500

isInMaintenance(dt, windows) ==
    \E k \in 1..Len(windows) :
        dt >= parseUTC(windows[k].startDate) /\ dt < parseUTC(windows[k].endDate)

\* snapToShift without the isWithinShift test: an instant inside a shift is
\* moved to the next shift start as well.
snapToShiftStart(current, shifts) ==
    IF Len(shifts) > 0 THEN getNextShiftStart(current, shifts) ELSE current

\* if (shifts.length > 0 && !isWithinShift(current, shifts)) getNextShiftStart
snapToShift(current, shifts) ==
    IF Len(shifts) > 0 /\ ~isWithinShift(current, shifts)
    THEN getNextShiftStart(current, shifts) ELSE current

\* The while loop of getNextAvailableStart from iteration `iterations` on:
\* jump to the end of the first window holding current, snap to a shift.
RECURSIVE AvailableStartLoop(_, _, _, _)
AvailableStartLoop(current, iterations, shifts, windows) ==
    IF ~isInMaintenance(current, windows)
    THEN [t |-> current, exhausted |-> FALSE]
    ELSE IF ~(iterations < MAX_MAINTENANCE_ITERATIONS)
    THEN [t |-> current, exhausted |-> TRUE]
    ELSE LET w == windows[Min({k \in 1..Len(windows) :
                      /\ current >= parseUTC(windows[k].startDate)
                      /\ current < parseUTC(windows[k].endDate)})]
         IN  AvailableStartLoop(snapToShift(parseUTC(w.endDate), shifts),
                                iterations + 1, shifts, windows)

getNextAvailableStart(dt, shifts, windows) ==
    AvailableStartLoop(snapToShift(dt, shifts), 0, shifts, windows)

\* nonMaintenanceIdsOf without the filter: every order is rescheduled.
allIdsOf(workOrders, orderIds) == orderIds

\* orderIds.filter((id) => !byNumber.get(id).isMaintenance)
nonMaintenanceIdsOf(workOrders, orderIds) ==
    SelectSeq(orderIds, LAMBDA id : ~byNumber(workOrders, id).isMaintenance)

\* lastEndOnCenter: the ends already scheduled on the center (null: none).
endsOnCenter(scheduled, center) ==
    {scheduled[center][k].end : k \in 1..Len(scheduled[center])}

\* End of each dependency that names an order: the stored end of a
\* maintenance parent, else the parent's end in newSchedule, else its
\* stored end.
parentEnds(workOrders, wo, schedule) ==
    {LET parent == byNumber(workOrders, wo.dependsOnWorkOrderIds[k])
     IN  IF parent.isMaintenance THEN parseUTC(parent.endDate)
         ELSE IF parent.workOrderNumber \in DOMAIN schedule
         THEN schedule[parent.workOrderNumber].end
         ELSE parseUTC(parent.endDate) :
        k \in {j \in 1..Len(wo.dependsOnWorkOrderIds) :
                  hasNumber(workOrders, wo.dependsOnWorkOrderIds[j])}}

\* candidateStartOf without lastEndOnCenter.
candidateStartIgnoringCenter(wo, centerEnds, depEnds) ==
    Max(depEnds \cup {parseUTC(wo.startDate)})

\* candidateStartOf with the stored end of the order as the floor, in place
\* of its stored start.
candidateStartFromStoredEnd(wo, centerEnds, depEnds) ==
    Max(centerEnds \cup depEnds \cup {parseUTC(wo.endDate)})

\* DateTime.max(lastEndOnCenter ?? floor, maxParentEnd ?? floor, floor)
candidateStartOf(wo, centerEnds, depEnds) ==
    Max(centerEnds \cup depEnds \cup {parseUTC(wo.startDate)})

\* placement with the end taken as start + durationMinutes, without the
\* walk over shifts and maintenance windows.
placementWithoutWalk(wo, workCenters, centerEnds, depEnds) ==
    LET snapped == getNextAvailableStart(
                       candidateStartOf(wo, centerEnds, depEnds),
                       shiftsOf(workCenters, wo.workCenterId),
                       windowsOf(workCenters, wo.workCenterId))
    IN  [start |-> snapped.t,
         end |-> snapped.t + wo.durationMinutes * SecondsPerMinute,
         exhausted |-> snapped.exhausted]

\* Lines 162-217 for one order: its new start and end, and whether a loop
\* bound was exhausted on the way.
placement(wo, workCenters, centerEnds, depEnds) ==
    LET shifts == shiftsOf(workCenters, wo.workCenterId)
        windows == windowsOf(workCenters, wo.workCenterId)
        snapped == getNextAvailableStart(
                       candidateStartOf(wo, centerEnds, depEnds),
                       shifts, windows)
        walked == WalkWithShiftsAndMaintenance(
                      snapped.t, wo.durationMinutes, shifts, toRanges(windows))
    IN  [start |-> snapped.t, end |-> walked.t,
         exhausted |-> snapped.exhausted \/ walked.exhausted]

\* Lines 222-227 and 247-250: the reason of a start and of an end record.
startReason(start, centerEnds, depEnds) ==
    IF depEnds # {} /\ start = Max(depEnds) THEN "dependency"
    ELSE IF centerEnds # {} /\ start = Max(centerEnds)
    THEN "work center conflict"
    ELSE "shift or maintenance"

endReason(centerEnds, depEnds) ==
    IF depEnds # {} \/ centerEnds # {} THEN "cascade from new start"
    ELSE "shift or maintenance"

\* changesOf without lines 246-266: a new end is not recorded.
changesOfStartOnly(wo, placed, centerEnds, depEnds) ==
    IF placed.start # parseUTC(wo.startDate)
    THEN <<[workOrderId |-> wo.workOrderNumber, field |-> "startDate",
            oldValue |-> wo.startDate, newValue |-> toISO(placed.start),
            reason |-> startReason(placed.start, centerEnds, depEnds)]>>
    ELSE <<>>

\* Lines 219-266: the Change records of one placed order.
changesOf(wo, placed, centerEnds, depEnds) ==
    (IF placed.start # parseUTC(wo.startDate)
     THEN <<[workOrderId |-> wo.workOrderNumber, field |-> "startDate",
             oldValue |-> wo.startDate, newValue |-> toISO(placed.start),
             reason |-> startReason(placed.start, centerEnds, depEnds)]>>
     ELSE <<>>)
    \o (IF placed.end # parseUTC(wo.endDate)
        THEN <<[workOrderId |-> wo.workOrderNumber, field |-> "endDate",
                oldValue |-> wo.endDate, newValue |-> toISO(placed.end),
                reason |-> endReason(centerEnds, depEnds)]>>
        ELSE <<>>)

\* Lines 269-278.
updatedWorkOrdersOf(workOrders, schedule) ==
    [k \in 1..Len(workOrders) |->
        LET wo == workOrders[k]
        IN  IF wo.isMaintenance THEN wo
            ELSE IF wo.workOrderNumber \notin DOMAIN schedule THEN wo
            ELSE [wo EXCEPT
                    !.startDate = toISO(schedule[wo.workOrderNumber].start),
                    !.endDate = toISO(schedule[wo.workOrderNumber].end)]]

\* ------------------------------------------------------------------------
\* Inputs: the work orders and work centers a call is made with
\* ------------------------------------------------------------------------
MaxOrders == 3
MaxDurationHours == 2

at(d, h, m, s) == [day |-> d, hour |-> h, minute |-> m, second |-> s]
shift(dow, from, to) == [dayOfWeek |-> dow, startHour |-> from, endHour |-> to]
window(from, to) == [startDate |-> from, endDate |-> to]

\* Monday to Friday 08-17; the same with a night shift 22-6 on Monday,
\* whose startHour is not below its endHour; the night shift alone; none.
weekShifts == [d \in 1..5 |-> shift(d, 8, 17)]
mixedShifts == <<shift(1, 8, 17), shift(1, 22, 6), shift(2, 8, 17)>>
nightShifts == <<shift(1, 22, 6)>>
ShiftTables == {<<>>, weekShifts, mixedShifts, nightShifts}

tuesdayMorning == window(at(1, 8, 0, 0), at(1, 9, 0, 0))
mondayLate == window(at(0, 16, 30, 0), at(0, 17, 0, 0))
WindowLists == {<<>>, <<tuesdayMorning>>, <<mondayLate, tuesdayMorning>>}

center(shifts, windows) ==
    [name |-> "L1", shifts |-> shifts, maintenanceWindows |-> windows]

\* One configured center, L1; L2 is a center name no work center carries.
Calendars == {<<center(s, w)>> : s \in ShiftTables, w \in WindowLists}
PairCalendars ==
    {<<center(weekShifts, <<>>)>>,
     <<center(weekShifts, <<tuesdayMorning>>)>>,
     <<center(<<>>, <<mondayLate, tuesdayMorning>>)>>}
CenterNames == {"L1", "L2"}

Ids == <<"A", "B", "C", "D">>
Durations == {h * MinutesPerHour : h \in 0..MaxDurationHours}

order(id, c, s, e, d, m, deps) ==
    [workOrderNumber |-> id, workCenterId |-> c, startDate |-> s,
     endDate |-> e, durationMinutes |-> d, isMaintenance |-> m,
     dependsOnWorkOrderIds |-> deps]

\* A single order on every calendar: starts inside a shift, off the minute
\* and after hours; stored ends (none before the start) on the walked end
\* and half a minute, a minute, a minute and a half and more off it; no
\* dependency, a dependency on itself, an id that names no order.
SingleTimes ==
    {t \in {at(0, 16, 0, 0), at(0, 16, 0, 30), at(0, 18, 0, 0)}
           \X {at(0, 17, 0, 0), at(0, 17, 0, 30), at(0, 17, 1, 0),
               at(0, 17, 1, 30), at(1, 9, 0, 0), at(1, 10, 0, 0)} :
        parseUTC(t[1]) <= parseUTC(t[2])}
SingleOrders ==
    {<<order("A", c, t[1], t[2], d, m, deps)>> :
        c \in CenterNames, t \in SingleTimes,
        d \in Durations, m \in BOOLEAN,
        deps \in {<<>>, <<"A">>, <<"X">>}}

\* Two orders whose stored intervals abut or overlap, on the same or on
\* different centers, independent or dependent either way.
PairCenters == {<<"L1", "L1">>, <<"L1", "L2">>, <<"L2", "L2">>}
PairTimes ==
    {at(0, 15, 0, 0), at(0, 16, 0, 0)} \X {at(0, 16, 0, 0), at(0, 17, 0, 0)}
PairDurations == {MinutesPerHour, 2 * MinutesPerHour}
PairDependencies == {<<<<>>, <<>>>>, <<<<>>, <<"A">>>>, <<<<"B">>, <<>>>>}
PairOrders ==
    {<<order("A", c[1], ta[1], ta[2], da, ma, deps[1]),
       order("B", c[2], tb[1], tb[2], db, mb, deps[2])>> :
        c \in PairCenters, ta \in PairTimes, tb \in PairTimes,
        da \in PairDurations, db \in PairDurations,
        ma \in BOOLEAN, mb \in BOOLEAN,
        deps \in PairDependencies}

\* Up to MaxOrders orders on L1 with the same stored interval, each
\* depending on at most two of the orders (itself included).
DependencyLists(n) ==
    {<<>>} \cup {<<Ids[i]>> : i \in 1..n}
           \cup {<<Ids[p[1]], Ids[p[2]]>> :
                    p \in {q \in (1..n) \X (1..n) : q[1] < q[2]}}
GraphOrders ==
    UNION {{[k \in 1..n |->
                order(Ids[k], "L1", at(0, 9, 0, 0), at(0, 10, 0, 0),
                      MinutesPerHour, FALSE, deps[k])] :
            deps \in [1..n -> DependencyLists(n)]} : n \in 3..MaxOrders}
GraphCalendars == {<<center(weekShifts, <<>>)>>}

\* Two independent orders on L1, listed either way, each an order of
\* duration zero stored on Monday 16:00, an hour's order stored from 16:00
\* or a two hours' order stored from 15:00.
ZeroSlots ==
    {<<at(0, 16, 0, 0), at(0, 16, 0, 0), 0>>,
     <<at(0, 16, 0, 0), at(0, 17, 0, 0), MinutesPerHour>>,
     <<at(0, 15, 0, 0), at(0, 17, 0, 0), 2 * MinutesPerHour>>}
ZeroOrders ==
    {<<order("A", "L1", a[1], a[2], a[3], FALSE, <<>>),
       order("B", "L1", b[1], b[2], b[3], FALSE, <<>>)>> :
        a \in ZeroSlots, b \in ZeroSlots}

\* One order of duration zero stored at the instant a maintenance window
\* starts, Monday 16:30 or Tuesday 08:00, on Monday to Friday 08-17.
BoundaryOrders ==
    {<<order("A", "L1", t, t, 0, FALSE, <<>>)>> :
        t \in {at(0, 16, 30, 0), at(1, 8, 0, 0)}}
BoundaryCalendars == {<<center(weekShifts, w)>> : w \in WindowLists}

Inputs ==
    (SingleOrders \X Calendars) \cup (PairOrders \X PairCalendars)
        \cup (GraphOrders \X GraphCalendars)
        \cup (ZeroOrders \X GraphCalendars)
        \cup (BoundaryOrders \X BoundaryCalendars)

\* ------------------------------------------------------------------------
\* State
\* ------------------------------------------------------------------------
VARIABLES
    workOrders,        \* input.workOrders
    workCenters,       \* input.workCenters
    pc,                \* where the call is: idle; reflow in topologicalOrder,
                       \* placing, returned, thrown, hangs (never returns);
                       \* validateSchedule validated, auditHangs
    inDegree,          \* topologicalOrder: inDegree
    queue,             \* topologicalOrder: queue
    result,            \* topologicalOrder: result
    placedCount,       \* reflow: iterations of the placement loop completed
    scheduledByCenter, \* reflow: scheduledByCenter
    newSchedule,       \* reflow: newSchedule
    changes,           \* reflow: changes
    exhausted,         \* some loop of this call ran out of its iteration bound
    returned,          \* what reflow returned: [updatedWorkOrders, changes]
    thrown,            \* what reflow threw: [kind, ids, errors]
    validation,        \* what validateSchedule returned: [strict, valid, errors]
    segments,          \* run-scenarios: the working segments of each order of
                       \* the result (empty until they are computed)
    previous           \* the result the input of this call was taken from
                       \* (none: the input is not the result of a call)

vars == <<workOrders, workCenters, pc, inDegree, queue, result, placedCount,
          scheduledByCenter, newSchedule, changes, exhausted, returned,
          thrown, validation, segments, previous>>

input == <<workOrders, workCenters, previous>>
kahn == <<inDegree, queue, result>>
placer == <<placedCount, scheduledByCenter, newSchedule, changes, exhausted>>
outcome == <<returned, thrown, validation, segments>>

noResult == [updatedWorkOrders |-> <<>>, changes |-> <<>>]
noError == [kind |-> "", ids |-> <<>>, errors |-> <<>>]
noReport == [strict |-> FALSE, valid |-> FALSE, errors |-> <<>>]

Init ==
    /\ \E in \in Inputs : workOrders = in[1] /\ workCenters = in[2]
    /\ pc = "idle"
    /\ inDegree = <<>>
    /\ queue = <<>>
    /\ result = <<>>
    /\ placedCount = 0
    /\ scheduledByCenter = [c \in CenterNames |-> <<>>]
    /\ newSchedule = <<>>
    /\ changes = <<>>
    /\ exhausted = FALSE
    /\ returned = noResult
    /\ thrown = noError
    /\ validation = noReport
    /\ segments = <<>>
    /\ previous = noResult

\* ------------------------------------------------------------------------
\* validateSchedule called on the input (a read-only audit)
\* ------------------------------------------------------------------------
Audit(strict) ==
    LET v == IF strict THEN validateScheduleStrict(workOrders, workCenters)
             ELSE validateSchedule(workOrders, workCenters)
    IN  /\ pc = "idle"
        /\ pc' = IF v.returns THEN "validated" ELSE "auditHangs"
        /\ validation' = [strict |-> strict, valid |-> v.valid,
                          errors |-> v.errors]
        /\ UNCHANGED <<input, kahn, placer, returned, thrown, segments>>

CallValidateSchedule == Audit(FALSE)

CallValidateScheduleStrict == Audit(TRUE)

\* ------------------------------------------------------------------------
\* reflow
\* ------------------------------------------------------------------------
\* Entry of reflow, topologicalOrder lines 94-116.
CallReflow ==
    /\ pc = "idle"
    /\ pc' = "topologicalOrder"
    /\ inDegree' = initialInDegree(workOrders)
    /\ queue' = initialQueue(workOrders, initialInDegree(workOrders), 1)
    /\ result' = <<>>
    /\ UNCHANGED <<input, placer, outcome>>

\* One iteration of while (queue.length > 0), lines 118-126.
KahnStep ==
    /\ pc = "topologicalOrder"
    /\ queue # <<>>
    /\ LET n == Head(queue)
           released == releaseChildren(childrenOf(workOrders, n, 1), 1,
                                       inDegree, Tail(queue))
       IN  /\ result' = Append(result, n)
           /\ inDegree' = released.inDegree
           /\ queue' = released.queue
    /\ UNCHANGED <<input, pc, placer, outcome>>

\* Lines 127-135 and reflow lines 141-160: throw on a cycle, else go on to
\* the placement loop.
KahnEnd ==
    /\ pc = "topologicalOrder"
    /\ queue = <<>>
    /\ IF Len(result) # Len(workOrders)
       THEN /\ pc' = "thrown"
            /\ thrown' = [kind |-> "cycle",
                          ids |-> inCycle(workOrders, result),
                          errors |-> <<>>]
       ELSE /\ pc' = "placing"
            /\ UNCHANGED thrown
    /\ UNCHANGED <<input, kahn, placer, returned, validation, segments>>

nonMaintenanceIds == nonMaintenanceIdsOf(workOrders, result)

\* One iteration of for (const woId of nonMaintenanceIds), lines 162-267.
PlaceNext ==
    /\ pc = "placing"
    /\ placedCount < Len(nonMaintenanceIds)
    /\ LET wo == byNumber(workOrders, nonMaintenanceIds[placedCount + 1])
           centerEnds == endsOnCenter(scheduledByCenter, wo.workCenterId)
           depEnds == parentEnds(workOrders, wo, newSchedule)
           placed == placement(wo, workCenters, centerEnds, depEnds)
           slot == [start |-> placed.start, end |-> placed.end]
       IN  /\ newSchedule' = (wo.workOrderNumber :> slot) @@ newSchedule
           /\ scheduledByCenter' =
                  [scheduledByCenter EXCEPT
                      ![wo.workCenterId] = Append(@, slot)]
           /\ changes' = changes \o changesOf(wo, placed, centerEnds, depEnds)
           /\ exhausted' = (exhausted \/ placed.exhausted)
    /\ placedCount' = placedCount + 1
    /\ UNCHANGED <<input, pc, kahn, outcome>>

\* ValidateAndReturn without the gate of lines 280-285: whatever the placement
\* loop produced is returned.
ValidateAndReturnUnchecked ==
    /\ pc = "placing"
    /\ placedCount = Len(nonMaintenanceIds)
    /\ pc' = "returned"
    /\ returned' = [updatedWorkOrders |->
                        updatedWorkOrdersOf(workOrders, newSchedule),
                    changes |-> changes]
    /\ UNCHANGED <<input, kahn, placer, thrown, validation, segments>>

\* Lines 269-296: build updatedWorkOrders, validate, throw or return.
ValidateAndReturn ==
    /\ pc = "placing"
    /\ placedCount = Len(nonMaintenanceIds)
    /\ LET updatedWorkOrders == updatedWorkOrdersOf(workOrders, newSchedule)
           v == validateSchedule(updatedWorkOrders, workCenters)
       IN  IF ~v.returns
           THEN /\ pc' = "hangs"
                /\ UNCHANGED <<returned, thrown>>
           ELSE IF ~v.valid
           THEN /\ pc' = "thrown"
                /\ thrown' = [kind |-> "invalid schedule", ids |-> <<>>,
                              errors |-> v.errors]
                /\ UNCHANGED returned
           ELSE /\ pc' = "returned"
                /\ returned' = [updatedWorkOrders |-> updatedWorkOrders,
                                changes |-> changes]
                /\ UNCHANGED thrown
    /\ UNCHANGED <<input, kahn, placer, validation, segments>>

\* run-scenarios.ts lines 62-81: after reflow has returned, the working
\* segments of every order of updatedWorkOrders.
ReportSegments ==
    /\ pc = "returned"
    /\ segments = <<>>
    /\ segments' =
           [k \in 1..Len(returned.updatedWorkOrders) |->
               LET wo == returned.updatedWorkOrders[k]
               IN  getWorkingSegments(
                       parseUTC(wo.startDate), wo.durationMinutes,
                       shiftsOf(workCenters, wo.workCenterId),
                       toRanges(windowsOf(workCenters, wo.workCenterId)))]
    /\ UNCHANGED <<input, pc, kahn, placer, returned, thrown, validation>>

\* The caller takes the updatedWorkOrders reflow returned, with the same
\* work centers, as the input of the next call.
ReflowOutputAsInput ==
    /\ pc = "returned"
    /\ previous = noResult
    /\ previous' = returned
    /\ workOrders' = returned.updatedWorkOrders
    /\ pc' = "idle"
    /\ inDegree' = <<>>
    /\ queue' = <<>>
    /\ result' = <<>>
    /\ placedCount' = 0
    /\ scheduledByCenter' = [c \in CenterNames |-> <<>>]
    /\ newSchedule' = <<>>
    /\ changes' = <<>>
    /\ exhausted' = FALSE
    /\ returned' = noResult
    /\ segments' = <<>>
    /\ UNCHANGED <<workCenters, thrown, validation>>

Next ==
    \/ CallValidateSchedule
    \/ CallValidateScheduleStrict
    \/ CallReflow
    \/ KahnStep
    \/ KahnEnd
    \/ PlaceNext
    \/ ValidateAndReturn
    \/ ReportSegments
    \/ ReflowOutputAsInput

Spec == Init /\ [][Next]_vars

\* ------------------------------------------------------------------------
\* Properties
\* ------------------------------------------------------------------------
reflowEnded == pc \in {"returned", "thrown", "hangs"}

orderIndices == 1..Len(workOrders)
output == returned.updatedWorkOrders

\* The later of the two starts is strictly before the earlier of the ends.
overlap(s1, e1, s2, e2) ==
    (IF s1 > s2 THEN s1 ELSE s2) < (IF e1 < e2 THEN e1 ELSE e2)

\* C1 (round trip): whenever reflow returns a result, validateSchedule of
\* the returned updatedWorkOrders and the same work centers returns
\* valid = true with an empty error list.
RoundTrip ==
    pc = "returned" =>
        LET v == validateSchedule(output, workCenters)
        IN  v.returns /\ v.valid /\ v.errors = <<>>

\* A result was returned in which an order was moved.
RoundTripWitness ==
    /\ pc = "returned"
    /\ Len(output) = Len(workOrders)
    /\ returned.changes # <<>>

\* C2 (no overlap): in the output of every successful reflow no two
\* distinct non-maintenance orders of one work center overlap; and after
\* every placement step each order placed on a center starts at or after
\* the end of every order placed on that center before it in this pass.
NoOverlap ==
    /\ pc = "returned" =>
          \A i, j \in orderIndices :
              (/\ i # j
               /\ ~output[i].isMaintenance
               /\ ~output[j].isMaintenance
               /\ output[i].workCenterId = output[j].workCenterId)
              => ~overlap(parseUTC(output[i].startDate),
                          parseUTC(output[i].endDate),
                          parseUTC(output[j].startDate),
                          parseUTC(output[j].endDate))
    /\ \A c \in CenterNames :
          \A i, j \in 1..Len(scheduledByCenter[c]) :
              i < j => scheduledByCenter[c][j].start
                           >= scheduledByCenter[c][i].end

\* Two orders stored on top of each other on one center were returned, the
\* second pushed to the end of the first.
NoOverlapWitness ==
    /\ pc = "returned"
    /\ Len(workOrders) = 2
    /\ ~workOrders[1].isMaintenance /\ ~workOrders[2].isMaintenance
    /\ workOrders[1].workCenterId = workOrders[2].workCenterId
    /\ overlap(parseUTC(workOrders[1].startDate),
               parseUTC(workOrders[1].endDate),
               parseUTC(workOrders[2].startDate),
               parseUTC(workOrders[2].endDate))
    /\ output[2].startDate = output[1].endDate
    /\ output[2].startDate # workOrders[2].startDate

\* C3 (dependency monotonicity): in the output of every successful reflow
\* every dependency id of every order names an order of the output, and the
\* order starts at or after that order's output end.
DependencyMonotonicity ==
    pc = "returned" =>
        \A i \in orderIndices :
            \A k \in 1..Len(output[i].dependsOnWorkOrderIds) :
                LET id == output[i].dependsOnWorkOrderIds[k]
                IN  /\ hasNumber(output, id)
                    /\ parseUTC(output[i].startDate)
                           >= parseUTC(byNumber(output, id).endDate)

\* An order stored before the end of its dependency was returned, moved to
\* the rescheduled end of that dependency.
DependencyMonotonicityWitness ==
    /\ pc = "returned"
    /\ \E i, j \in orderIndices :
          /\ i # j
          /\ ~workOrders[i].isMaintenance /\ ~workOrders[j].isMaintenance
          /\ workOrders[i].dependsOnWorkOrderIds
                 = <<workOrders[j].workOrderNumber>>
          /\ parseUTC(workOrders[i].startDate)
                 < parseUTC(workOrders[j].endDate)
          /\ output[i].startDate = output[j].endDate
          /\ output[j].endDate # workOrders[j].endDate

\* Seconds of [from, to) that are inside a shift (any instant, when the
\* center has no shifts) and outside every maintenance range.  Shift
\* membership changes only on the hour, maintenance only at range
\* boundaries: between two neighbouring cut points the answer is constant.
working(t, shifts, ranges) ==
    /\ Len(shifts) = 0 \/ isWithinShift(t, shifts)
    /\ ~isInMaintenanceRange(t, ranges)

cutPoints(from, to, ranges) ==
    {from, to}
        \cup {h * SecondsPerHour :
                 h \in (from \div SecondsPerHour)..(to \div SecondsPerHour)}
        \cup {ranges[k].start : k \in 1..Len(ranges)}
        \cup {ranges[k].end : k \in 1..Len(ranges)}

RECURSIVE workingSecondsFrom(_, _, _, _, _)
workingSecondsFrom(t, to, points, shifts, ranges) ==
    IF t >= to THEN 0
    ELSE LET next == Min({p \in points : p > t})
         IN  (IF working(t, shifts, ranges) THEN next - t ELSE 0)
                 + workingSecondsFrom(next, to, points, shifts, ranges)

workingSeconds(from, to, shifts, ranges) ==
    workingSecondsFrom(from, to,
                       {p \in cutPoints(from, to, ranges) : from <= p /\ p <= to},
                       shifts, ranges)

workedAsLongAsAsked(wo) ==
    workingSeconds(parseUTC(wo.startDate), parseUTC(wo.endDate),
                   shiftsOf(workCenters, wo.workCenterId),
                   toRanges(windowsOf(workCenters, wo.workCenterId)))
        = wo.durationMinutes * SecondsPerMinute

\* C4 (duration conservation): for every non-maintenance order of the
\* output of a successful reflow, on any work center, the time of
\* [start, end) that is inside a shift of its center and outside every
\* maintenance window of its center is durationMinutes exactly.
DurationConservation ==
    pc = "returned" =>
        \A i \in orderIndices :
            ~output[i].isMaintenance => workedAsLongAsAsked(output[i])

\* C5 (idempotence): for every schedule validateSchedule reports valid,
\* reflow returns with an empty changes list and an output that validates
\* again.
Idempotence ==
    (reflowEnded /\ validateSchedule(workOrders, workCenters).valid) =>
        /\ pc = "returned"
        /\ returned.changes = <<>>
        /\ validateSchedule(output, workCenters).valid

\* The resolvable dependency edges: dep -> dependent.
numbers == {workOrders[k].workOrderNumber : k \in orderIndices}
dependents(id) ==
    {workOrders[k].workOrderNumber :
        k \in {j \in orderIndices :
                  \E d \in 1..Len(workOrders[j].dependsOnWorkOrderIds) :
                      workOrders[j].dependsOnWorkOrderIds[d] = id}}

\* Orders reached from the set S by one to n edges.
RECURSIVE downstream(_, _)
downstream(S, n) ==
    IF n = 0 THEN {}
    ELSE LET step == UNION {dependents(id) : id \in S}
         IN  step \cup downstream(step, n - 1)

onCycle == {id \in numbers : id \in downstream({id}, Len(workOrders))}
neverReady == onCycle \cup downstream(onCycle, Len(workOrders))

\* C6 (cycle detection): reflow fails with the circular-dependency error,
\* having produced no updatedWorkOrders and no changes, if and only if the
\* resolvable dependency edges contain a cycle (a self-dependency
\* included); the error names, once each, exactly the orders on a cycle
\* and the orders downstream of one.
CycleDetection ==
    /\ (pc = "thrown" /\ thrown.kind = "cycle") =>
          /\ onCycle # {}
          /\ {thrown.ids[k] : k \in 1..Len(thrown.ids)} = neverReady
          /\ Len(thrown.ids) = Cardinality(neverReady)
          /\ returned = noResult /\ changes = <<>> /\ newSchedule = <<>>
    /\ (onCycle # {} /\ pc \in {"placing", "returned", "thrown", "hangs"}) =>
          pc = "thrown" /\ thrown.kind = "cycle"

\* A depends on B and B on A, a third order is free: the error names A and B.
CycleDetectionWitness ==
    /\ pc = "thrown"
    /\ thrown.kind = "cycle"
    /\ thrown.ids = <<"A", "B">>
    /\ Len(workOrders) = 3
    /\ workOrders[1].dependsOnWorkOrderIds = <<"B">>
    /\ workOrders[2].dependsOnWorkOrderIds = <<"A">>

\* C7 (maintenance orders are immovable): in the output of every
\* successful reflow each maintenance order has its input start and end,
\* and no change record (in the result, or at any step of the pass) names
\* a maintenance order.
MaintenanceImmovable ==
    /\ pc = "returned" =>
          \A i \in orderIndices :
              workOrders[i].isMaintenance =>
                  /\ output[i].startDate = workOrders[i].startDate
                  /\ output[i].endDate = workOrders[i].endDate
                  /\ \A k \in 1..Len(returned.changes) :
                         returned.changes[k].workOrderId
                             # workOrders[i].workOrderNumber
    /\ \A k \in 1..Len(changes) :
          ~byNumber(workOrders, changes[k].workOrderId).isMaintenance

\* A result was returned for a maintenance order whose stored end is not
\* what the time walk gives, and an order depending on it that was moved.
MaintenanceImmovableWitness ==
    /\ pc = "returned"
    /\ \E i, j \in orderIndices :
          /\ workOrders[i].isMaintenance
          /\ ~workOrders[j].isMaintenance
          /\ workOrders[j].dependsOnWorkOrderIds
                 = <<workOrders[i].workOrderNumber>>
          /\ output[j].startDate = workOrders[i].endDate
          /\ output[j].startDate # workOrders[j].startDate
          /\ parseUTC(workOrders[i].endDate)
                 # parseUTC(workOrders[i].startDate)
                       + workOrders[i].durationMinutes * SecondsPerMinute

\* C8 (an exhausted iteration bound is fatal): whenever a loop of the
\* time walk or of the start snap runs out of iterations, the reflow call
\* fails with a scheduling-impossible error of its own kind; it never goes
\* on with the last instant computed.
ExhaustedBoundIsFatal ==
    (exhausted /\ reflowEnded) =>
        pc = "thrown" /\ thrown.kind = "scheduling impossible"

\* C9 (termination of reflow): every call of reflow returns or throws.
ReflowTerminates == pc # "hangs"

\* C10 (validateSchedule is total): every call of validateSchedule returns
\* a report, with valid = (errors is empty).
ValidateScheduleTotal ==
    /\ pc # "auditHangs"
    /\ pc = "validated" => (validation.valid <=> validation.errors = <<>>)

\* C11 (no work across maintenance): in the output of every successful
\* reflow, no non-maintenance order on a center that has shifts occupies an
\* interval [start, end) that overlaps a maintenance window of its center.
NoMaintenanceOverlap ==
    pc = "returned" =>
        \A i \in orderIndices :
            (/\ ~output[i].isMaintenance
             /\ Len(shiftsOf(workCenters, output[i].workCenterId)) > 0)
            => LET ranges ==
                       toRanges(windowsOf(workCenters, output[i].workCenterId))
               IN  \A k \in 1..Len(ranges) :
                       ~overlap(parseUTC(output[i].startDate),
                                parseUTC(output[i].endDate),
                                ranges[k].start, ranges[k].end)

\* The order the next iteration of the placement loop takes, and its
\* earliest-start floor: the candidateStart of lines 190-195 before the snap.
nextOrder == byNumber(workOrders, nonMaintenanceIds[placedCount + 1])
nextFloor ==
    candidateStartOf(nextOrder,
                     endsOnCenter(scheduledByCenter, nextOrder.workCenterId),
                     parentEnds(workOrders, nextOrder, newSchedule))

\* C12 (a maintenance order occupies its center): whenever the placement
\* loop places an order whose floor lies inside the stored interval of a
\* maintenance order of the same work center, the order is placed at or
\* after the end of that maintenance order.
MaintenanceOrderIsOccupancy ==
    [][(pc = "placing" /\ placedCount' = placedCount + 1) =>
          \A i \in orderIndices :
              (/\ workOrders[i].isMaintenance
               /\ workOrders[i].workCenterId = nextOrder.workCenterId
               /\ parseUTC(workOrders[i].startDate) <= nextFloor
               /\ nextFloor < parseUTC(workOrders[i].endDate))
              => newSchedule'[nextOrder.workOrderNumber].start
                     >= parseUTC(workOrders[i].endDate)]_vars

\* C13 (one time walk): for every order of a call that has been made, the
\* shift-only walk the Validator uses returns, and returns the instant the
\* shift-and-maintenance walk of the Placer gives for the same start,
\* duration and shifts and no maintenance range.
SameTimeWalk ==
    pc # "idle" =>
        \A i \in orderIndices :
            LET shifts == shiftsOf(workCenters, workOrders[i].workCenterId)
                start == parseUTC(workOrders[i].startDate)
                validatorEnd ==
                    calculateEndDateWithShifts(
                        start, workOrders[i].durationMinutes, shifts)
            IN  /\ validatorEnd.returns
                /\ validatorEnd.t =
                       calculateEndDateWithShiftsAndMaintenance(
                           start, workOrders[i].durationMinutes, shifts, <<>>)

\* Index of id in the sequence seq.
position(seq, id) == Min({k \in 1..Len(seq) : seq[k] = id})

\* C14 (topological processing order): once topologicalOrder has returned,
\* result is a permutation of the work order ids in which every order comes
\* after each dependency of it that names an order; and every order the
\* placement loop has placed has all its non-maintenance dependencies
\* placed already.
TopologicalProcessingOrder ==
    /\ pc \in {"placing", "returned", "hangs"}
           \/ (pc = "thrown" /\ thrown.kind # "cycle")
       => /\ Len(result) = Len(workOrders)
          /\ {result[k] : k \in 1..Len(result)} = numbers
          /\ \A i \in orderIndices :
                 \A d \in 1..Len(workOrders[i].dependsOnWorkOrderIds) :
                     LET dep == workOrders[i].dependsOnWorkOrderIds[d]
                     IN  dep \in numbers =>
                             position(result, dep)
                                 < position(result,
                                            workOrders[i].workOrderNumber)
    /\ \A id \in DOMAIN newSchedule :
           LET wo == byNumber(workOrders, id)
           IN  \A d \in 1..Len(wo.dependsOnWorkOrderIds) :
                   LET dep == wo.dependsOnWorkOrderIds[d]
                   IN  (dep \in numbers /\ ~byNumber(workOrders, dep).isMaintenance)
                       => dep \in DOMAIN newSchedule

\* Three orders were placed in an order that is not the input order: A,
\* listed first, depends on an order listed after it.
TopologicalProcessingOrderWitness ==
    /\ pc = "returned"
    /\ Len(workOrders) = 3
    /\ placedCount = 3
    /\ workOrders[1].dependsOnWorkOrderIds = <<"B", "C">>
    /\ workOrders[3].dependsOnWorkOrderIds = <<"B">>
    /\ result = <<"B", "C", "A">>

\* Whole minutes of the segments from index k on, counted as the code
\* counts them (Math.floor of the difference in minutes).
RECURSIVE segmentMinutes(_, _)
segmentMinutes(segs, k) ==
    IF k > Len(segs) THEN 0
    ELSE (segs[k].end - segs[k].start) \div SecondsPerMinute
             + segmentMinutes(segs, k + 1)

segment(from, to) == [start |-> parseUTC(from), end |-> parseUTC(to)]

\* C15 (working segments): for every order getWorkingSegments was called
\* for, 120 minutes from Monday 16:00 under Monday-Friday 08-17 give
\* [Mon 16:00, Mon 17:00) and [Tue 08:00, Tue 09:00) with end Tue 09:00, and
\* with a maintenance window Tue 08:00-09:00 the second segment is
\* [Tue 09:00, Tue 10:00); and always the segments are time-ordered and
\* disjoint, their whole minutes sum to the duration, and the last segment
\* (when there is one) ends where
\* calculateEndDateWithShiftsAndMaintenance ends for the same arguments.
WorkingSegmentsAgree ==
    \A i \in 1..Len(segments) :
        LET wo == output[i]
            segs == segments[i]
            shifts == shiftsOf(workCenters, wo.workCenterId)
            windows == windowsOf(workCenters, wo.workCenterId)
            end == calculateEndDateWithShiftsAndMaintenance(
                       parseUTC(wo.startDate), wo.durationMinutes,
                       shifts, toRanges(windows))
            scenario == /\ wo.startDate = at(0, 16, 0, 0)
                        /\ wo.durationMinutes = 2 * MinutesPerHour
                        /\ shifts = weekShifts
        IN  /\ (scenario /\ windows = <<>>) =>
                   /\ segs = <<segment(at(0, 16, 0, 0), at(0, 17, 0, 0)),
                               segment(at(1, 8, 0, 0), at(1, 9, 0, 0))>>
                   /\ end = parseUTC(at(1, 9, 0, 0))
            /\ (scenario /\ windows = <<tuesdayMorning>>) =>
                   segs = <<segment(at(0, 16, 0, 0), at(0, 17, 0, 0)),
                            segment(at(1, 9, 0, 0), at(1, 10, 0, 0))>>
            /\ \A k \in 1..Len(segs) : segs[k].start <= segs[k].end
            /\ \A k \in 1..(Len(segs) - 1) : segs[k].end <= segs[k + 1].start
            /\ segmentMinutes(segs, 1) = wo.durationMinutes
            /\ Len(segs) > 0 => segs[Len(segs)].end = end

\* Three orders on one work center, the second depending on the first and
\* the third on the second, whose stored intervals overlap pairwise.
delayCascade ==
    /\ Len(workOrders) = 3
    /\ \A i \in orderIndices :
           /\ ~workOrders[i].isMaintenance
           /\ workOrders[i].workCenterId = workOrders[1].workCenterId
    /\ workOrders[1].dependsOnWorkOrderIds = <<>>
    /\ workOrders[2].dependsOnWorkOrderIds = <<workOrders[1].workOrderNumber>>
    /\ workOrders[3].dependsOnWorkOrderIds = <<workOrders[2].workOrderNumber>>
    /\ \A i, j \in orderIndices :
           overlap(parseUTC(workOrders[i].startDate),
                   parseUTC(workOrders[i].endDate),
                   parseUTC(workOrders[j].startDate),
                   parseUTC(workOrders[j].endDate))

\* C16 (delay cascade): when reflow has ended on a delay cascade A, B, C it
\* has returned; B starts at or after A's end and C at or after B's end;
\* and the changes hold a record with reason "dependency" and a record with
\* reason "work center conflict".
DelayCascade ==
    (reflowEnded /\ delayCascade) =>
        /\ pc = "returned"
        /\ parseUTC(output[2].startDate) >= parseUTC(output[1].endDate)
        /\ parseUTC(output[3].startDate) >= parseUTC(output[2].endDate)
        /\ \E k \in 1..Len(returned.changes) :
               returned.changes[k].reason = "dependency"
        /\ \E k \in 1..Len(returned.changes) :
               returned.changes[k].reason = "work center conflict"

\* Indices of the change records of one field of one order.
recordsOf(id, field) ==
    {k \in 1..Len(returned.changes) :
        /\ returned.changes[k].workOrderId = id
        /\ returned.changes[k].field = field}

\* C17 (change records mirror the diff): in the result of every successful
\* reflow, for every non-maintenance order and each of startDate and
\* endDate, there is exactly one change record of that field, carrying the
\* input value as oldValue and the output value as newValue, when the
\* output instant differs from the input instant, and none when it does not.
ChangesMirrorDiff ==
    pc = "returned" =>
        \A i \in orderIndices : \A field \in {"startDate", "endDate"} :
            ~workOrders[i].isMaintenance =>
                LET recs == recordsOf(workOrders[i].workOrderNumber, field)
                IN  IF parseUTC(output[i][field])
                           # parseUTC(workOrders[i][field])
                    THEN /\ Cardinality(recs) = 1
                         /\ \A k \in recs :
                                /\ returned.changes[k].oldValue
                                       = workOrders[i][field]
                                /\ returned.changes[k].newValue
                                       = output[i][field]
                    ELSE recs = {}

\* A result in which one order kept its start and got a new end, and
\* another order got a new start and a new end.
ChangesMirrorDiffWitness ==
    /\ pc = "returned"
    /\ \E i, j \in orderIndices :
           /\ ~workOrders[i].isMaintenance /\ ~workOrders[j].isMaintenance
           /\ output[i].startDate = workOrders[i].startDate
           /\ output[i].endDate # workOrders[i].endDate
           /\ output[j].startDate # workOrders[j].startDate
           /\ output[j].endDate # workOrders[j].endDate
           /\ Len(returned.changes) = 3

\* Every shift of the table ends after it starts.
wellFormed(shifts) ==
    \A k \in 1..Len(shifts) : shifts[k].startHour < shifts[k].endHour

\* The least instant at or after floor that is inside a shift (any instant,
\* when there are no shifts) and outside every maintenance range.  Being in
\* a shift can only begin on the hour and being in maintenance can only stop
\* at the end of a range, so the least such instant is the floor, an hour
\* of the eight days from the floor's day on, or the end of a range.
leastAvailable(floor, shifts, ranges) ==
    Min({t \in {floor}
             \cup {startOfDay(floor) + h * SecondsPerHour :
                      h \in 0..((DaysPerWeek + 1) * HoursPerDay)}
             \cup {ranges[k].end : k \in 1..Len(ranges)} :
            t >= floor /\ working(t, shifts, ranges)})

EndToleranceSubMinute ==
    (pc = "validated" /\ ~validation.strict) =>
        \A i \in orderIndices :
            LET wo == workOrders[i]
                shifts == shiftsOf(workCenters, wo.workCenterId)
                walked == computedEnd(
                              wo, shifts,
                              toRanges(windowsOf(workCenters, wo.workCenterId)))
                off == Abs(walked.t - parseUTC(wo.endDate))
                reported ==
                    \E k \in 1..Len(validation.errors) :
                        validation.errors[k]
                            = Err("shift end", wo.workOrderNumber, "")
            IN  Len(shifts) > 0 =>
                    (reported <=> off >= SecondsPerMinute)

\* The order is on a work center with an empty shift table (or on a center
\* that is not configured).
withoutShifts(wo) == Len(shiftsOf(workCenters, wo.workCenterId)) = 0

ready ==
    {id \in numbers :
        /\ inDegree[id] = 0
        /\ \A k \in 1..Len(result) : result[k] # id}

\* C21 (tie-breaking by input order): at every step of the topological
\* sort, the order emitted next (the head of the queue) is, among the
\* orders that are ready at that moment, the one that comes first in the
\* input list.
TieBreakByInputOrder ==
    (pc = "topologicalOrder" /\ queue # <<>>) =>
        Head(queue) =
            workOrders[Min({k \in orderIndices :
                               workOrders[k].workOrderNumber \in ready})]
                .workOrderNumber

\* The ids of the set S in input-list order.
inInputOrder(S) ==
    SelectSeq(numbersOf(workOrders), LAMBDA id : id \in S)

\* C21 as amended (first ready, first out): the orders ready at the start
\* of the topological sort are queued in input-list order; every step emits
\* the head of the queue, which is the ready order that has been ready
\* longest, and queues behind the orders still waiting those that the step
\* made ready, in input-list order; the queue holds the ready orders and
\* nothing else.
FirstReadyFirstOut ==
    [][/\ (pc = "idle" /\ pc' = "topologicalOrder") =>
              queue' = inInputOrder(ready')
       /\ (pc = "topologicalOrder" /\ result' # result) =>
              /\ result' = Append(result, Head(queue))
              /\ queue' = Tail(queue) \o inInputOrder(ready' \ ready)
              /\ {queue'[k] : k \in 1..Len(queue')} = ready']_vars

\* A, then B depending on A, then C: C, ready from the start, was emitted
\* before B, which became ready when A was emitted.
FirstReadyFirstOutWitness ==
    /\ pc = "placing"
    /\ Len(workOrders) = 3
    /\ workOrders[1].dependsOnWorkOrderIds = <<>>
    /\ workOrders[2].dependsOnWorkOrderIds = <<"A">>
    /\ workOrders[3].dependsOnWorkOrderIds = <<>>
    /\ result = <<"A", "C", "B">>

\* wo lists a dependency id that names no order of the input.
unresolved(wo) ==
    \E k \in 1..Len(wo.dependsOnWorkOrderIds) :
        ~hasNumber(workOrders, wo.dependsOnWorkOrderIds[k])

\* wo, and the input, without the dependency ids that name no order.
resolvable(wo) ==
    [wo EXCEPT !.dependsOnWorkOrderIds =
        SelectSeq(@, LAMBDA id : hasNumber(workOrders, id))]
resolvableOrders == [k \in orderIndices |-> resolvable(workOrders[k])]

\* C22 (unresolved dependency ids never yield a result): for every input
\* in which some order lists a dependency id that names no order, the
\* topological sort starts from the in-degrees and the queue of the input
\* without that id, the placement loop places every order where it places
\* it without that id, and reflow ends by throwing the invalid-schedule
\* error, whose list holds the unknown-dependency error of the Validator,
\* having returned no updated orders.
UnresolvedNeverYields ==
    [][(\E i \in orderIndices : unresolved(workOrders[i])) =>
          /\ (pc = "idle" /\ pc' = "topologicalOrder") =>
                 /\ inDegree' = initialInDegree(resolvableOrders)
                 /\ queue' = initialQueue(resolvableOrders, inDegree', 1)
          /\ (pc = "placing" /\ placedCount' = placedCount + 1) =>
                 LET wo == resolvable(nextOrder)
                     placed ==
                         placement(wo, workCenters,
                                   endsOnCenter(scheduledByCenter,
                                                wo.workCenterId),
                                   parentEnds(resolvableOrders, wo,
                                              newSchedule))
                 IN  newSchedule'[wo.workOrderNumber]
                         = [start |-> placed.start, end |-> placed.end]
          /\ (pc = "placing" /\ pc' # "placing") =>
                 /\ pc' = "thrown"
                 /\ thrown'.kind = "invalid schedule"
                 /\ \E i \in orderIndices :
                        \E k \in 1..Len(thrown'.errors) :
                            /\ thrown'.errors[k].kind = "unknown dependency"
                            /\ thrown'.errors[k].order
                                   = workOrders[i].workOrderNumber
                 /\ returned' = noResult]_vars

\* Unique order ids, acyclic and resolvable dependencies, no maintenance
\* order, every order on a configured work center that has at least one
\* shift and only shifts with startHour < endHour.
wellFormedInput ==
    /\ \A i, j \in orderIndices :
           workOrders[i].workOrderNumber = workOrders[j].workOrderNumber
               => i = j
    /\ onCycle = {}
    /\ \A i \in orderIndices :
           /\ ~unresolved(workOrders[i])
           /\ ~workOrders[i].isMaintenance
           /\ workOrders[i].durationMinutes >= 0
           /\ hasCenter(workCenters, workOrders[i].workCenterId)
           /\ Len(shiftsOf(workCenters, workOrders[i].workCenterId)) > 0
           /\ wellFormed(shiftsOf(workCenters, workOrders[i].workCenterId))

ReflowFixedPoint ==
    (previous # noResult /\ reflowEnded) =>
        /\ pc = "returned"
        /\ returned.changes = <<>>
        /\ Len(output) = Len(previous.updatedWorkOrders)
        /\ \A i \in 1..Len(output) :
               /\ output[i].startDate = previous.updatedWorkOrders[i].startDate
               /\ output[i].endDate = previous.updatedWorkOrders[i].endDate

\* The second call returned for a result in which the first call had moved
\* two orders.
ReflowFixedPointWitness ==
    /\ previous # noResult
    /\ pc = "returned"
    /\ Len(previous.changes) >= 4
    /\ returned.changes = <<>>

\* Some two orders of the list on one work center have overlapping stored
\* intervals.
overlapping(orders) ==
    \E i, j \in 1..Len(orders) :
        /\ i # j
        /\ orders[i].workCenterId = orders[j].workCenterId
        /\ overlap(parseUTC(orders[i].startDate), parseUTC(orders[i].endDate),
                   parseUTC(orders[j].startDate), parseUTC(orders[j].endDate))

\* The work orders listed in another order.
listings ==
    {[k \in orderIndices |-> workOrders[p[k]]] :
        p \in {q \in [orderIndices -> orderIndices] :
                  \A i, j \in orderIndices : q[i] = q[j] => i = j}}

\* C25 (the conflict check is exact and order-independent): every report
\* of validateSchedule holds a work-center conflict error if and only if
\* some two orders on one work center have overlapping intervals, and the
\* conflict check reports an error for the orders as listed if and only if
\* it reports one for them listed in any other order.
ConflictCheckExact ==
    pc = "validated" =>
        /\ (\E k \in 1..Len(validation.errors) :
                validation.errors[k].kind = "conflict")
               <=> overlapping(workOrders)
        /\ \A listed \in listings :
               (checkWorkCenterConflicts(listed) # <<>>)
                   <=> (checkWorkCenterConflicts(workOrders) # <<>>)

\* C26 (the strict validator is at least as strict): every schedule the
\* strict validateSchedule (src/constraint-checker.ts) reports valid is
\* reported valid by the lenient validateSchedule of the reflow service as
\* well.
StrictImpliesLenient ==
    (pc = "validated" /\ validation.strict /\ validation.valid) =>
        LET lenient == validateSchedule(workOrders, workCenters)
        IN  lenient.returns /\ lenient.valid
====
